---- MODULE Spec2Model ----
(***************************************************************************)
(* Model of scripts/eda_report_generator.py: the EDA report generator for  *)
(* Amazon sales data.  main() is a straight-line program: load the CSV,    *)
(* enrich the table, write the data quality report, the charts, run the    *)
(* hypothesis tests, write the hypothesis report and the insight skeleton. *)
(*                                                                         *)
(* Values of a table cell are integers: a number n >= 0 stands for itself, *)
(* NaN is the missing value, Text(k) is the k-th non-numeric string.       *)
(* p-values are in millionths (alpha = 50000 is 0.05).                    *)
(***************************************************************************)
EXTENDS Integers, Sequences, FiniteSets, TLC

VARIABLES
    pc,          \* position of main(): "start", "enriched", ..., "done", "raised"
    input,       \* the table as read by pd.read_csv (column name -> sequence of cells)
    df,          \* the table main() works on
    written,     \* the output files written so far, in order
    dq,          \* the content of the data quality report
    corr_line,   \* main's corr_line
    results,     \* main's results list
    reg_line,    \* main's reg_line
    hyp_content, \* what was written to reports/hypothesis_testing.md
    printed,     \* the success line was printed
    col0,        \* a numeric column as first profiled
    col,         \* the same column after reordering / extension
    ext,         \* how col was extended: "none", "inside", "above", "other"
    outliers,    \* iqr_outliers_count of col
    tab,         \* a contingency table (pd.crosstab result)
    chi          \* the outcome of chi_square_test on tab

vars == <<pc, input, df, written, dq, corr_line, results, reg_line,
          hyp_content, printed, col0, col, ext, outliers, tab, chi>>

mainVars == <<pc, input, df, written, dq, corr_line, results, reg_line,
              hyp_content, printed>>
iqrVars == <<col0, col, ext, outliers>>
chiVars == <<tab, chi>>

----------------------------------------------------------------------------
(* Bounds of the model *)

MaxRows == 2      \* rows of the tables the enrichment step is checked on
MaxCell == 2      \* Price / Quantity / Revenue cells range over 0..MaxCell
MaxLen == 4       \* rows of the numeric columns the outlier count is checked on
MaxVal == 3       \* their cells range over 0..MaxVal
MaxCount == 6     \* cells of the contingency tables range over 0..MaxCount
NRows == 12       \* rows of the sales tables main() is run on
ShortRows == 3    \* rows of the short sales table

----------------------------------------------------------------------------
(* Cell values *)

NaN == -1
Text(k) == 0 - (k + 2)
IsText(v) == v < NaN

Range(f) == {f[x] : x \in DOMAIN f}

Columns(t) == DOMAIN t

Rows(t) == IF Columns(t) = {} THEN 0 ELSE Len(t[CHOOSE c \in Columns(t) : TRUE])

\* t with column c set to the sequence s (df[c] = s)
SetColumn(t, c, s) == [k \in Columns(t) \cup {c} |-> IF k = c THEN s ELSE t[k]]

----------------------------------------------------------------------------
(* Loader / Enricher: main(), lines 65-80 *)

bins == <<18, 25, 35, 45, 55, 200>>
labels == <<"18-25", "26-35", "36-45", "46-55", "55+">>
NoLabel == "NaN"

\* pd.cut(x, bins, labels, right=False) for one value: left-closed intervals
cutLeftClosed(x) ==
    IF \E i \in 1..Len(labels) : bins[i] <= x /\ x < bins[i+1]
    THEN labels[CHOOSE i \in 1..Len(labels) : bins[i] <= x /\ x < bins[i+1]]
    ELSE NoLabel

\* pd.cut(x, bins, labels, right=True) for one value: the label of the
\* interval (bins[i], bins[i+1]] that holds x, NaN when there is none
cut(x) ==
    IF \E i \in 1..Len(labels) : bins[i] < x /\ x <= bins[i+1]
    THEN labels[CHOOSE i \in 1..Len(labels) : bins[i] < x /\ x <= bins[i+1]]
    ELSE NoLabel

\* pd.cut raises on a column that is not numeric (object dtype)
cutRaises(s) == \E i \in 1..Len(s) : IsText(s[i])

\* lines 72-78
AgeBucket(t) ==
    IF "Age" \in Columns(t) /\ ~cutRaises(t["Age"])
    THEN SetColumn(t, "AgeGroup", [i \in 1..Len(t["Age"]) |-> cut(t["Age"][i])])
    ELSE t

\* element-wise product of two numeric cells; a missing operand gives NaN
Mul(a, b) == IF a = NaN \/ b = NaN THEN NaN ELSE a * b

\* lines 79-80 without the test for an existing Revenue column
DeriveRevenueOverwrite(t) ==
    IF "Price" \in Columns(t) /\ "Quantity" \in Columns(t)
    THEN SetColumn(t, "Revenue",
                   [i \in 1..Len(t["Price"]) |-> Mul(t["Price"][i], t["Quantity"][i])])
    ELSE t

\* lines 79-80
DeriveRevenue(t) ==
    IF "Price" \in Columns(t) /\ "Quantity" \in Columns(t) /\ "Revenue" \notin Columns(t)
    THEN SetColumn(t, "Revenue",
                   [i \in 1..Len(t["Price"]) |-> Mul(t["Price"][i], t["Quantity"][i])])
    ELSE t

\* lines 67-80 (the OrderDate conversion changes the dtype only)
Enrich(t) == DeriveRevenue(AgeBucket(t))

----------------------------------------------------------------------------
(* Quality Profiler: iqr_outliers_count, lines 35-39, and main(), lines 83-93 *)

dropna(s) == SelectSeq(s, LAMBDA v : v # NaN)

sort_values(s) == SortSeq(s, LAMBDA a, b : a < b)

\* 4 * s.quantile(k/4) read at the position of the unsorted column
quantile4Unsorted(s, k) ==
    LET h4 == k * (Len(s) - 1)
        i  == h4 \div 4
        fr == h4 % 4
    IN  IF fr = 0 THEN 4 * s[i + 1] ELSE (4 - fr) * s[i + 1] + fr * s[i + 2]

\* 4 * s.quantile(k/4), k in {1, 3}: linear interpolation between the two
\* order statistics around position (k/4) * (n - 1) of the sorted column
quantile4(s, k) ==
    LET t  == sort_values(s)
        h4 == k * (Len(t) - 1)
        i  == h4 \div 4
        fr == h4 % 4
    IN  IF fr = 0 THEN 4 * t[i + 1] ELSE (4 - fr) * t[i + 1] + fr * t[i + 2]

\* 8 * lower and 8 * upper of line 38
lower8(s) == 2 * quantile4(s, 1) - 3 * (quantile4(s, 3) - quantile4(s, 1))
upper8(s) == 2 * quantile4(s, 3) + 3 * (quantile4(s, 3) - quantile4(s, 1))

\* the number of cells of t outside [lo8/8, up8/8]
CountOutside(t, lo8, up8) ==
    Cardinality({i \in 1..Len(t) : 8 * t[i] < lo8 \/ 8 * t[i] > up8})

\* iqr_outliers_count with the quartiles taken without sorting
iqr_outliers_count_unsorted(s) ==
    IF Len(s) = 0 THEN 0
    ELSE LET q1 == quantile4Unsorted(s, 1)
             q3 == quantile4Unsorted(s, 3)
         IN  CountOutside(s, 2 * q1 - 3 * (q3 - q1), 2 * q3 + 3 * (q3 - q1))

\* lines 35-39; the quantiles of an empty column are NaN and nothing is
\* counted
iqr_outliers_count(s) ==
    IF Len(s) = 0 THEN 0 ELSE CountOutside(s, lower8(s), upper8(s))

\* line 90, for one column
outlier_count(s) == iqr_outliers_count(dropna(s))

----------------------------------------------------------------------------
(* Hypothesis engine: chi_square_test, lines 41-47 *)

min_count == 5

RowSum(t, r) ==
    LET RECURSIVE Sum(_)
        Sum(S) == IF S = {} THEN 0
                  ELSE LET c == CHOOSE x \in S : TRUE IN t.n[r, c] + Sum(S \ {c})
    IN  Sum(t.cols)

ColSum(t, c) ==
    LET RECURSIVE Sum(_)
        Sum(S) == IF S = {} THEN 0
                  ELSE LET r == CHOOSE x \in S : TRUE IN t.n[r, c] + Sum(S \ {r})
    IN  Sum(t.rows)

\* tab.loc[rowmask, colmask]
Loc(t, rs, cs) == [rows |-> rs, cols |-> cs, n |-> [x \in rs \X cs |-> t.n[x]]]

\* lines 43-45 pruning with a strict comparison
PruneStrict(t) ==
    IF \E x \in t.rows \X t.cols : t.n[x] < min_count
    THEN Loc(t, {r \in t.rows : RowSum(t, r) > min_count},
                {c \in t.cols : ColSum(t, c) > min_count})
    ELSE t

\* lines 43-45
Prune(t) ==
    IF \E x \in t.rows \X t.cols : t.n[x] < min_count
    THEN Loc(t, {r \in t.rows : RowSum(t, r) >= min_count},
                {c \in t.cols : ColSum(t, c) >= min_count})
    ELSE t

\* stats.chi2_contingency raises on a table of size 0 and on a table with
\* a zero expected frequency (a row or a column of the table sums to 0)
Chi2Raises(t) ==
    \/ t.rows = {} \/ t.cols = {}
    \/ /\ \E r \in t.rows : RowSum(t, r) > 0
       /\ \/ \E r \in t.rows : RowSum(t, r) = 0
          \/ \E c \in t.cols : ColSum(t, c) = 0

Dof(t) == (Cardinality(t.rows) - 1) * (Cardinality(t.cols) - 1)

\* lines 41-47: the table the statistic is computed on, whether
\* chi2_contingency raises, and the degrees of freedom
chi_square_test(t) ==
    LET p == Prune(t)
    IN  IF Chi2Raises(p) THEN [status |-> "raise", tab |-> p, dof |-> 0]
        ELSE [status |-> "ok", tab |-> p, dof |-> Dof(p)]

----------------------------------------------------------------------------
(* Table helpers used by main() *)

IsMissing(c, v) == IF c = "AgeGroup" THEN v = NoLabel ELSE v = NaN

HasText(s) == \E i \in 1..Len(s) : IsText(s[i])

\* the rows of t whose index is in the set keep, in order (boolean indexing)
RowFilter(t, keep) ==
    LET idx == SelectSeq([i \in 1..Rows(t) |-> i], LAMBDA i : i \in keep)
    IN  [c \in Columns(t) |-> [k \in 1..Len(idx) |-> t[c][idx[k]]]]

\* df.dropna(subset=cs)
dropna_subset(t, cs) ==
    RowFilter(t, {i \in 1..Rows(t) : \A c \in cs : ~IsMissing(c, t[c][i])})

\* the keys of df.groupby(g): the non-missing values of column g
GroupKeys(t, g) == {v \in Range(t[g]) : ~IsMissing(g, v)}

\* pd.crosstab(t[a], t[b]) on a table without missing values in a and b
crosstab(t, a, b) ==
    LET rs == Range(t[a])
        cs == Range(t[b])
    IN  [rows |-> rs, cols |-> cs,
         n |-> [x \in rs \X cs |->
                  Cardinality({i \in 1..Rows(t) : t[a][i] = x[1] /\ t[b][i] = x[2]})]]

\* df[c].value_counts().head(k).index: the k most frequent values of column c
value_counts_head(t, c, k) ==
    LET keys == GroupKeys(t, c)
        cnt(v) == Cardinality({i \in 1..Rows(t) : t[c][i] = v})
    IN  IF Cardinality(keys) <= k THEN keys
        ELSE CHOOSE S \in SUBSET keys :
                /\ Cardinality(S) = k
                /\ \A x \in S, y \in keys \ S : cnt(x) >= cnt(y)

----------------------------------------------------------------------------
(* Quality report, main() lines 83-130 *)

is_datetime(t) == "OrderDate" \in Columns(t) /\ ~HasText(t["OrderDate"])

SeqMin(s) == CHOOSE v \in Range(s) : \A w \in Range(s) : v <= w
SeqMax(s) == CHOOSE v \in Range(s) : \A w \in Range(s) : v >= w

\* line 89: the columns of a numeric dtype
numeric_cols(t) ==
    {c \in Columns(t) : c \notin {"OrderDate", "AgeGroup"} /\ ~HasText(t[c])}

\* line 86: the rows equal to an earlier row
dup_count(t) ==
    Cardinality({i \in 1..Rows(t) :
                    \E j \in 1..(i - 1) : \A c \in Columns(t) : t[c][j] = t[c][i]})

QualityReport(t) ==
    [rows |-> Rows(t),
     cols |-> Cardinality(Columns(t)),
     start_date |-> IF is_datetime(t) /\ dropna(t["OrderDate"]) # <<>>
                    THEN SeqMin(dropna(t["OrderDate"])) ELSE NaN,
     end_date |-> IF is_datetime(t) /\ dropna(t["OrderDate"]) # <<>>
                  THEN SeqMax(dropna(t["OrderDate"])) ELSE NaN,
     missing |-> {c \in Columns(t) : \E i \in 1..Rows(t) : IsMissing(c, t[c][i])},
     dup_count |-> dup_count(t),
     numeric_cols |-> numeric_cols(t),
     outlier_counts |-> [c \in numeric_cols(t) |-> outlier_count(t[c])]]

NoReport == [rows |-> 0, cols |-> 0, start_date |-> NaN, end_date |-> NaN,
             missing |-> {}, dup_count |-> 0, numeric_cols |-> {},
             outlier_counts |-> <<>>]

----------------------------------------------------------------------------
(* main(): the steps after the enrichment *)

QualityFile == "reports/data_quality_report.md"
HypothesisFile == "reports/hypothesis_testing.md"
InsightFile == "reports/insight_summary.md"
RevCatChart == "visuals/plots/revenue_by_category.png"
RRCatChart == "visuals/plots/return_rate_by_category.png"
RRBrandChart == "visuals/plots/return_rate_by_brand.png"
RRDeviceChart == "visuals/plots/return_rate_by_device.png"
Charts == {RevCatChart, RRCatChart, RRBrandChart, RRDeviceChart}

RaisedStates == {"raised_in_read_csv", "raised_in_save_bar", "raised_in_corr",
                 "raised_in_chi_square_test", "raised_in_OLS"}

\* line 65: pd.read_csv raises on a missing or malformed file
ReadCsvRaises ==
    /\ pc = "start"
    /\ pc' = "raised_in_read_csv"
    /\ UNCHANGED <<input, df, written, dq, corr_line, results, reg_line,
                   hyp_content, printed>>
    /\ UNCHANGED <<iqrVars, chiVars>>

\* lines 65-80
Load ==
    /\ pc = "start"
    /\ df' = Enrich(input)
    /\ pc' = "profile"
    /\ UNCHANGED <<input, written, dq, corr_line, results, reg_line,
                   hyp_content, printed>>
    /\ UNCHANGED <<iqrVars, chiVars>>

\* lines 83-128 without the write of lines 129-130
WriteQualityReportUnwritten ==
    /\ pc = "profile"
    /\ dq' = QualityReport(df)
    /\ pc' = "revenue_by_category"
    /\ UNCHANGED <<input, df, written, corr_line, results, reg_line, hyp_content, printed>>
    /\ UNCHANGED <<iqrVars, chiVars>>

\* lines 83-130
WriteQualityReport ==
    /\ pc = "profile"
    /\ dq' = QualityReport(df)
    /\ written' = Append(written, QualityFile)
    /\ pc' = "revenue_by_category"
    /\ UNCHANGED <<input, df, corr_line, results, reg_line, hyp_content, printed>>
    /\ UNCHANGED <<iqrVars, chiVars>>

\* One gated chart: group column g, value column v.  The aggregate of a
\* text column cannot be plotted (save_bar raises); a bar chart of no
\* group at all raises or not with the plotting library.
ChartStep(here, next, req, g, v, file) ==
    /\ pc = here
    /\ IF req \subseteq Columns(df)
       THEN \/ /\ ~HasText(df[v])
               /\ written' = Append(written, file)
               /\ pc' = next
            \/ /\ HasText(df[v]) \/ GroupKeys(df, g) = {}
               /\ pc' = "raised_in_save_bar"
               /\ UNCHANGED written
       ELSE /\ pc' = next
            /\ UNCHANGED written
    /\ UNCHANGED <<input, df, dq, corr_line, results, reg_line, hyp_content, printed>>
    /\ UNCHANGED <<iqrVars, chiVars>>

\* lines 134-136
RevenueByCategory ==
    ChartStep("revenue_by_category", "return_rate_by_category",
              {"Revenue", "Category"}, "Category", "Revenue", RevCatChart)

\* lines 139-142
ReturnRateByCategory ==
    ChartStep("return_rate_by_category", "return_rate_by_brand",
              {"Returned", "Category"}, "Category", "Returned", RRCatChart)

\* lines 139, 143-146
ReturnRateByBrand ==
    ChartStep("return_rate_by_brand", "return_rate_by_device",
              {"Returned", "Brand"}, "Brand", "Returned", RRBrandChart)

\* lines 147-149 nested under the Category test of line 140
ReturnRateByDeviceNested ==
    ChartStep("return_rate_by_device", "corr",
              {"Returned", "Category", "Device"}, "Device", "Returned", RRDeviceChart)

\* lines 139, 147-149
ReturnRateByDevice ==
    ChartStep("return_rate_by_device", "corr",
              {"Returned", "Device"}, "Device", "Returned", RRDeviceChart)

CorrText == "Correlation(DiscountPercent, Quantity)"

\* lines 152-155: DataFrame.corr of a text column raises
Correlation ==
    /\ pc = "corr"
    /\ IF {"DiscountPercent", "Quantity"} \subseteq Columns(df)
       THEN \/ /\ ~HasText(df["DiscountPercent"]) /\ ~HasText(df["Quantity"])
               /\ corr_line' = CorrText
               /\ pc' = "h1"
            \/ /\ HasText(df["DiscountPercent"]) \/ HasText(df["Quantity"])
               /\ pc' = "raised_in_corr"
               /\ UNCHANGED corr_line
       ELSE /\ pc' = "h1"
            /\ UNCHANGED corr_line
    /\ UNCHANGED <<input, df, written, dq, results, reg_line, hyp_content, printed>>
    /\ UNCHANGED <<iqrVars, chiVars>>

\* statistic (in thousandths) and p-value (in millionths) pairs that
\* stats.chi2_contingency may return on a table with positive degrees of
\* freedom: p just below, at and just above 0.05
ChiSamples == {[chi2 |-> 3842, p |-> 49996], [chi2 |-> 3841, p |-> 50000],
               [chi2 |-> 3840, p |-> 50040]}

TableTotal(t) ==
    LET RECURSIVE Sum(_)
        Sum(S) == IF S = {} THEN 0
                  ELSE LET r == CHOOSE x \in S : TRUE IN RowSum(t, r) + Sum(S \ {r})
    IN  Sum(t.rows)

\* the statistic and p-value of chi2_contingency: 0.0 and 1.0 when dof = 0,
\* NaN on a table of zeros, else the statistic and the upper tail of the
\* chi-square distribution
Chi2P(t) ==
    IF Dof(t) = 0 THEN {[chi2 |-> 0, p |-> 1000000]}
    ELSE IF TableTotal(t) = 0 THEN {[chi2 |-> NaN, p |-> NaN]}
    ELSE ChiSamples

\* One gated chi-square test on the rows of t: lines 161-163, 166-168,
\* 171-173, 180-181
ChiSquareStep(next, t, a, b, name) ==
    LET r == chi_square_test(crosstab(dropna_subset(t, {a, b}), a, b))
    IN  \/ /\ r.status = "ok"
           /\ \E o \in Chi2P(r.tab) :
                 results' = Append(results, [name |-> name, chi2 |-> o.chi2,
                                             p |-> o.p, dof |-> r.dof])
           /\ pc' = next
        \/ /\ r.status = "raise"
           /\ pc' = "raised_in_chi_square_test"
           /\ UNCHANGED results

SkipTest(next) == pc' = next /\ UNCHANGED results

\* lines 161-163
H1 ==
    /\ pc = "h1"
    /\ IF {"Device", "Returned"} \subseteq Columns(df)
       THEN ChiSquareStep("h2", df, "Device", "Returned", "Device vs Returned (Chi-square)")
       ELSE SkipTest("h2")
    /\ UNCHANGED <<input, df, written, dq, corr_line, reg_line, hyp_content, printed>>
    /\ UNCHANGED <<iqrVars, chiVars>>

\* lines 166-168
H2 ==
    /\ pc = "h2"
    /\ IF {"Region", "DeliveryStatus"} \subseteq Columns(df)
       THEN ChiSquareStep("h3", df, "Region", "DeliveryStatus",
                          "Region vs DeliveryStatus (Chi-square)")
       ELSE SkipTest("h3")
    /\ UNCHANGED <<input, df, written, dq, corr_line, reg_line, hyp_content, printed>>
    /\ UNCHANGED <<iqrVars, chiVars>>

\* lines 171-173
H3 ==
    /\ pc = "h3"
    /\ IF {"AgeGroup", "Returned"} \subseteq Columns(df)
       THEN ChiSquareStep("h4", df, "AgeGroup", "Returned",
                          "AgeGroup vs Returned (Chi-square)")
       ELSE SkipTest("h4")
    /\ UNCHANGED <<input, df, written, dq, corr_line, reg_line, hyp_content, printed>>
    /\ UNCHANGED <<iqrVars, chiVars>>

\* lines 177-178: the rows of the 15 most frequent brands
TopBrandRows(t) ==
    LET top_brands == value_counts_head(t, "Brand", 15)
    IN  RowFilter(t, {i \in 1..Rows(t) : t["Brand"][i] \in top_brands})

\* lines 176-181
H4 ==
    /\ pc = "h4"
    /\ IF {"Brand", "Returned"} \subseteq Columns(df)
       THEN IF Rows(TopBrandRows(df)) > 0
            THEN ChiSquareStep("ols", TopBrandRows(df), "Brand", "Returned",
                               "Top Brands vs Returned (Chi-square)")
            ELSE SkipTest("ols")
       ELSE SkipTest("ols")
    /\ UNCHANGED <<input, df, written, dq, corr_line, reg_line, hyp_content, printed>>
    /\ UNCHANGED <<iqrVars, chiVars>>

RegText == "Quantity ~ DiscountPercent"

\* line 186-188: astype(float) raises on text, .loc raises on a row label
\* of y.dropna() that x.dropna() lacks, the fit raises on no row at all
OLSRaises(t) ==
    LET x == t["DiscountPercent"]
        y == t["Quantity"]
    IN  \/ HasText(x) \/ HasText(y)
        \/ \E i \in 1..Rows(t) : y[i] # NaN /\ x[i] = NaN
        \/ dropna(y) = <<>>

\* lines 184-189
H5 ==
    /\ pc = "ols"
    /\ IF {"DiscountPercent", "Quantity"} \subseteq Columns(df)
       THEN IF OLSRaises(df)
            THEN pc' = "raised_in_OLS" /\ UNCHANGED reg_line
            ELSE pc' = "hypothesis_report" /\ reg_line' = RegText
       ELSE pc' = "hypothesis_report" /\ UNCHANGED reg_line
    /\ UNCHANGED <<input, df, written, dq, corr_line, results, hyp_content, printed>>
    /\ UNCHANGED <<iqrVars, chiVars>>

----------------------------------------------------------------------------
(* Report emitter: main() lines 191-221 *)

alpha == 50000

\* a float comparison with NaN is false
FloatLess(a, b) == a # NaN /\ b # NaN /\ a < b
FloatLessEq(a, b) == a # NaN /\ b # NaN /\ a <= b

\* line 195 with a non-strict comparison
DecisionNonStrict(p) == IF FloatLessEq(p, alpha) THEN "Reject H0" ELSE "Fail to reject H0"

\* line 195
Decision(p) == IF FloatLess(p, alpha) THEN "Reject H0" ELSE "Fail to reject H0"

\* f"{p:.4g}" of a p-value in millionths: rounded to 4 significant digits
\* (half to even)
Format4g(p) ==
    IF p = NaN THEN NaN
    ELSE LET e == IF p < 10000 THEN 1 ELSE IF p < 100000 THEN 10
                  ELSE IF p < 1000000 THEN 100 ELSE 1000
             q == p \div e
             r == p % e
         IN  IF 2 * r > e \/ (2 * r = e /\ q % 2 = 1) THEN (q + 1) * e ELSE q * e

Line(kind, name, chi2, dof, p, decision) ==
    [kind |-> kind, name |-> name, chi2 |-> chi2, dof |-> dof, p |-> p,
     decision |-> decision]

HeaderLine == Line("header", "# Hypothesis Testing (Auto)", 0, 0, 0, "")
PlaceholderLine == Line("placeholder", "# Hypothesis Testing (No eligible columns found.)",
                        0, 0, 0, "")

\* line 196
ChiLine(r) == Line("chi", r.name, r.chi2, r.dof, Format4g(r.p), Decision(r.p))

\* lines 192-200
HypLines(res, corr, reg) ==
    <<HeaderLine>>
    \o [i \in 1..Len(res) |-> ChiLine(res[i])]
    \o (IF corr # "" THEN <<Line("corr", corr, 0, 0, 0, "")>> ELSE <<>>)
    \o (IF reg # "" THEN <<Line("reg", reg, 0, 0, 0, "")>> ELSE <<>>)

\* line 203: the text written to the hypothesis report
HypText(lines) == IF lines # <<>> THEN lines ELSE <<PlaceholderLine>>

\* lines 191-203
WriteHypothesisReport ==
    /\ pc = "hypothesis_report"
    /\ hyp_content' = HypText(HypLines(results, corr_line, reg_line))
    /\ written' = Append(written, HypothesisFile)
    /\ pc' = "insight"
    /\ UNCHANGED <<input, df, dq, corr_line, results, reg_line, printed>>
    /\ UNCHANGED <<iqrVars, chiVars>>

\* lines 205-219
WriteInsightSummary ==
    /\ pc = "insight"
    /\ written' = Append(written, InsightFile)
    /\ pc' = "print"
    /\ UNCHANGED <<input, df, dq, corr_line, results, reg_line, hyp_content, printed>>
    /\ UNCHANGED <<iqrVars, chiVars>>

\* line 221
PrintSuccess ==
    /\ pc = "print"
    /\ printed' = TRUE
    /\ pc' = "done"
    /\ UNCHANGED <<input, df, written, dq, corr_line, results, reg_line, hyp_content>>
    /\ UNCHANGED <<iqrVars, chiVars>>

----------------------------------------------------------------------------
(* The input tables *)

\* the column names main() tests for
RecognisedColumns ==
    {"OrderDate", "Age", "Price", "Quantity", "Revenue", "Category", "Returned",
     "Brand", "Device", "DiscountPercent", "Region", "DeliveryStatus"}

\* a well-formed sales table of n rows
CleanCell(c, i) ==
    CASE c = "OrderDate" -> 100 + i
      [] c = "Age" -> IF i % 2 = 1 THEN 30 ELSE 50
      [] c = "Price" -> (i % 3) + 1
      [] c = "Quantity" -> (i % 2) + 1
      [] c = "Revenue" -> 7
      [] c = "Category" -> Text(i % 2)
      [] c = "Returned" -> (i \div 2) % 2
      [] c = "Brand" -> Text(i % 2)
      [] c = "Device" -> Text(i % 2)
      [] c = "DiscountPercent" -> i % 4
      [] c = "Region" -> IF 3 * i <= 2 * NRows THEN Text(0) ELSE Text(1)
      [] c = "DeliveryStatus" -> Text(i % 2)

\* a sales table with an unparseable date, a non-numeric age, no brand at
\* all and a discount missing where the quantity is known
DirtyCell(c, i) ==
    CASE c = "OrderDate" /\ i = 1 -> Text(9)
      [] c = "Age" /\ i = 1 -> Text(9)
      [] c = "Brand" -> NaN
      [] c = "DiscountPercent" /\ i = 2 -> NaN
      [] OTHER -> CleanCell(c, i)

\* a short sales table (every category is rare) with a non-numeric revenue
\* and a non-numeric discount
ShortCell(c, i) ==
    IF c \in {"Revenue", "DiscountPercent"} /\ i = 1 THEN Text(9) ELSE CleanCell(c, i)

SalesTables ==
    { [c \in RecognisedColumns |-> [i \in 1..NRows |-> CleanCell(c, i)]],
      [c \in RecognisedColumns |-> [i \in 1..ShortRows |-> ShortCell(c, i)]],
      [c \in RecognisedColumns |-> [i \in 1..NRows |-> DirtyCell(c, i)]] }

\* the CSV files main() is run on: any subset of the recognised columns
\* of a sales table
Inputs == {[c \in S |-> t[c]] : S \in SUBSET RecognisedColumns, t \in SalesTables}

InitIdle ==
    /\ col0 = <<>> /\ col = <<>> /\ ext = "none" /\ outliers = 0
    /\ tab = [rows |-> {}, cols |-> {}, n |-> <<>>]
    /\ chi = [status |-> "none", tab |-> [rows |-> {}, cols |-> {}, n |-> <<>>], dof |-> 0]

InitMain(in) ==
    /\ pc = "start"
    /\ input = in
    /\ df = in
    /\ written = <<>>
    /\ dq = NoReport
    /\ corr_line = ""
    /\ results = <<>>
    /\ reg_line = ""
    /\ hyp_content = <<>>
    /\ printed = FALSE

Init == (\E in \in Inputs : InitMain(in)) /\ InitIdle

Next ==
    \/ ReadCsvRaises
    \/ Load
    \/ WriteQualityReport
    \/ RevenueByCategory
    \/ ReturnRateByCategory
    \/ ReturnRateByBrand
    \/ ReturnRateByDevice
    \/ Correlation
    \/ H1
    \/ H2
    \/ H3
    \/ H4
    \/ H5
    \/ WriteHypothesisReport
    \/ WriteInsightSummary
    \/ PrintSuccess

Spec == Init /\ [][Next]_vars

----------------------------------------------------------------------------
(* The enrichment step on small tables: ages around the bin edges, and  *)
(* every combination of Price, Quantity and Revenue columns             *)

SeqsUpTo(S, n) == UNION {[1..k -> S] : k \in 1..n}

AgeVals == {17, 18, 19, 24, 25, 26, 34, 35, 36, 45, 46, 55, 56, 60, 200, 201,
            NaN, Text(0)}

AgeTables == {[c \in {"Age"} |-> s] : s \in SeqsUpTo(AgeVals, MaxRows)}

AmountVals == (0..MaxCell) \cup {NaN}
RevenueVals == {7, NaN}

\* the cells of column c in a table of k rows with the columns S
ColumnChoices(c, S, k) ==
    IF c \notin S THEN {<<>>}
    ELSE IF c = "Revenue" THEN [1..k -> RevenueVals] ELSE [1..k -> AmountVals]

\* the table is an Age column, or any combination of Price, Quantity and
\* Revenue columns
InitEnrichInput ==
    \/ input \in AgeTables
    \/ \E S \in SUBSET {"Price", "Quantity", "Revenue"}, k \in 1..MaxRows :
          \E pr \in ColumnChoices("Price", S, k), qt \in ColumnChoices("Quantity", S, k),
             rv \in ColumnChoices("Revenue", S, k) :
             input = [c \in S |-> IF c = "Price" THEN pr
                                  ELSE IF c = "Quantity" THEN qt ELSE rv]

InitEnrich ==
    /\ InitEnrichInput
    /\ pc = "start"
    /\ df = input
    /\ written = <<>>
    /\ dq = NoReport
    /\ corr_line = ""
    /\ results = <<>>
    /\ reg_line = ""
    /\ hyp_content = <<>>
    /\ printed = FALSE
    /\ InitIdle

NextEnrich == Load

SpecEnrich == InitEnrich /\ [][NextEnrich]_vars

----------------------------------------------------------------------------
(* iqr_outliers_count on a numeric column that is reordered and extended *)

\* where the new cell v lies with respect to the bounds of column s
ExtKind(s, v) ==
    IF lower8(s) < 8 * v /\ 8 * v < upper8(s) THEN "inside"
    ELSE IF 8 * v > upper8(s) /\ 8 * (v - 1) <= upper8(s) THEN "above"
    ELSE "other"

InitIqr ==
    /\ col0 \in SeqsUpTo(0..MaxVal, MaxLen)
    /\ col = col0
    /\ ext = "none"
    /\ outliers = iqr_outliers_count(col0)
    /\ tab = [rows |-> {}, cols |-> {}, n |-> <<>>]
    /\ chi = [status |-> "none", tab |-> [rows |-> {}, cols |-> {}, n |-> <<>>], dof |-> 0]
    /\ InitMain(<<>>)

\* the rows i and i+1 of the column change places, the count is taken again
Reorder ==
    /\ ext = "none"
    /\ \E i \in 1..(Len(col) - 1) :
          col' = [col EXCEPT ![i] = col[i + 1], ![i + 1] = col[i]]
    /\ outliers' = iqr_outliers_count(col')
    /\ UNCHANGED <<col0, ext>>
    /\ UNCHANGED <<mainVars, chiVars>>

\* one row is added to the column as first profiled, the count is taken again
AddRow ==
    /\ ext = "none"
    /\ \E v \in 0..(MaxVal + 1) :
          /\ col' = Append(col, v)
          /\ ext' = ExtKind(col0, v)
    /\ outliers' = iqr_outliers_count(col')
    /\ UNCHANGED col0
    /\ UNCHANGED <<mainVars, chiVars>>

NextIqr == Reorder \/ AddRow

SpecIqr == InitIqr /\ [][NextIqr]_vars

----------------------------------------------------------------------------
(* chi_square_test on small contingency tables *)

RowCats == {"r1", "r2"}
ColCats == {"c1", "c2", "c3"}

\* the tables pd.crosstab can return: no row and no column, or at least one
\* of each, every category observed at least once
Crosstabs ==
    UNION {{t \in [rows : {rs}, cols : {cs}, n : [rs \X cs -> 0..MaxCount]] :
              /\ \A r \in rs : RowSum(t, r) > 0
              /\ \A c \in cs : ColSum(t, c) > 0} :
           rs \in SUBSET RowCats \ {{}}, cs \in SUBSET ColCats \ {{}}}
    \cup {[rows |-> {}, cols |-> {}, n |-> <<>>]}

InitChi ==
    /\ tab \in Crosstabs
    /\ chi = [status |-> "none", tab |-> [rows |-> {}, cols |-> {}, n |-> <<>>], dof |-> 0]
    /\ col0 = <<>> /\ col = <<>> /\ ext = "none" /\ outliers = 0
    /\ InitMain(<<>>)

\* lines 41-47 applied to tab
ChiSquareTest ==
    /\ chi.status = "none"
    /\ chi' = chi_square_test(tab)
    /\ UNCHANGED tab
    /\ UNCHANGED <<mainVars, iqrVars>>

NextChi == ChiSquareTest

SpecChi == InitChi /\ [][NextChi]_vars

----------------------------------------------------------------------------
(* Properties *)

Files == Range(written)

Raised == pc \in RaisedStates

\* the enrichment step has run
Enriched == pc \notin {"start", "raised_in_read_csv"}

\* the hypothesis report has been written
HypWritten == HypothesisFile \in Files

HasLine(kind, name) ==
    \E i \in 1..Len(hyp_content) :
        hyp_content[i].kind = kind /\ hyp_content[i].name = name

\* the gated outputs of main() and the columns each of them requires
GatedCharts ==
    {[out |-> RevCatChart, req |-> {"Revenue", "Category"}],
     [out |-> RRCatChart, req |-> {"Returned", "Category"}],
     [out |-> RRBrandChart, req |-> {"Returned", "Brand"}],
     [out |-> RRDeviceChart, req |-> {"Returned", "Device"}]}

GatedLines ==
    {[kind |-> "corr", out |-> CorrText, req |-> {"DiscountPercent", "Quantity"}],
     [kind |-> "chi", out |-> "Device vs Returned (Chi-square)", req |-> {"Device", "Returned"}],
     [kind |-> "chi", out |-> "Region vs DeliveryStatus (Chi-square)",
      req |-> {"Region", "DeliveryStatus"}],
     [kind |-> "chi", out |-> "AgeGroup vs Returned (Chi-square)", req |-> {"AgeGroup", "Returned"}],
     [kind |-> "chi", out |-> "Top Brands vs Returned (Chi-square)", req |-> {"Brand", "Returned"}],
     [kind |-> "reg", out |-> RegText, req |-> {"DiscountPercent", "Quantity"}]}

Present(req) == req \subseteq Columns(df)

\* the run is over: main() returned or an exception ended it after the load
Ended == pc = "done" \/ (Raised /\ Enriched)

BrandRowsNeeded(g) ==
    g.out = "Top Brands vs Returned (Chi-square)" => GroupKeys(df, "Brand") # {}

NoTestRan == results = <<>> /\ corr_line = "" /\ reg_line = ""

\* C2 as stated: when no test ran the hypothesis report holds the fixed
\* "no eligible columns" placeholder, otherwise the list of result lines.
C2_Placeholder ==
    HypWritten =>
        IF NoTestRan THEN hyp_content = <<PlaceholderLine>>
        ELSE hyp_content = HypLines(results, corr_line, reg_line)

\* the band the age a >= 18 falls in, as the bands are stated:
\* [18,25], (25,35], (35,45], (45,55], (55,infinity)
StatedBand(a) ==
    IF a <= 25 THEN "18-25" ELSE IF a <= 35 THEN "26-35"
    ELSE IF a <= 45 THEN "36-45" ELSE IF a <= 55 THEN "46-55" ELSE "55+"

\* the enrichment has run on a table with a numeric Age column
AgeBucketed == Enriched /\ "Age" \in Columns(input) /\ ~HasText(input["Age"])

\* C3 as stated: after the enrichment every row with Age >= 18 has the
\* label of the stated band that contains its age (18 gives "18-25", every
\* age above 55 gives "55+"), and every row with Age < 18 or a missing Age
\* has no AgeGroup.
C3_AgeBands ==
    AgeBucketed =>
        /\ "AgeGroup" \in Columns(df)
        /\ \A i \in 1..Rows(input) :
              LET a == input["Age"][i]
              IN  df["AgeGroup"][i] = IF a >= 18 THEN StatedBand(a) ELSE NoLabel

\* C4: the band boundaries are right-inclusive: an age equal to an interior
\* boundary b in {25, 35, 45, 55} gets the label of the band that ends at
\* b, and b + 1 gets the label of the next band (24 and 25 give "18-25",
\* 26 gives "26-35", 60 gives "55+").
C4_RightInclusive ==
    AgeBucketed =>
        \A i \in 1..Rows(input) :
            LET a == input["Age"][i]
                g == df["AgeGroup"][i]
            IN  /\ \A k \in 1..4 :
                      /\ a = bins[k + 1] => g = labels[k]
                      /\ a = bins[k + 1] + 1 => g = labels[k + 1]
                /\ a = 24 => g = "18-25"
                /\ a = 60 => g = "55+"

\* a bucketed table with a row on a boundary and a row just above it
C4_Witness ==
    /\ AgeBucketed
    /\ input["Age"] = <<25, 26>>
    /\ df["AgeGroup"] = <<"18-25", "26-35">>

\* C5: after the enrichment, a table read with Price and Quantity and
\* without Revenue has a Revenue column that is the row-wise product of
\* Price and Quantity; in every other case the Revenue column is as it was
\* read: absent if it was absent, unchanged if it was there.
C5_RevenueDerivation ==
    Enriched =>
        IF {"Price", "Quantity"} \subseteq Columns(input) /\ "Revenue" \notin Columns(input)
        THEN /\ "Revenue" \in Columns(df)
             /\ Len(df["Revenue"]) = Rows(input)
             /\ \A i \in 1..Rows(input) :
                   /\ (input["Price"][i] # NaN /\ input["Quantity"][i] # NaN)
                         => df["Revenue"][i] = input["Price"][i] * input["Quantity"][i]
                   /\ (input["Price"][i] = NaN \/ input["Quantity"][i] = NaN)
                         => df["Revenue"][i] = NaN
        ELSE /\ "Revenue" \in Columns(df) <=> "Revenue" \in Columns(input)
             /\ "Revenue" \in Columns(df) => df["Revenue"] = input["Revenue"]

\* a Revenue column derived from two rows of prices and quantities
C5_Witness ==
    /\ Enriched
    /\ "Revenue" \notin Columns(input)
    /\ {"Price", "Quantity"} \subseteq Columns(input)
    /\ input["Price"] = <<1, 2>> /\ input["Quantity"] = <<2, 2>>
    /\ df["Revenue"] = <<2, 4>>

\* C6: every chi-square result has exactly one line in the hypothesis
\* report, its label is "Reject H0" when the p-value of the result is
\* strictly below 0.05 and "Fail to reject H0" otherwise (also at exactly
\* 0.05), and the report has no other chi-square line.
C6_DecisionRule ==
    HypWritten =>
        /\ \A i \in 1..Len(results) :
              LET l == hyp_content[i + 1]
              IN  /\ l.kind = "chi" /\ l.name = results[i].name
                  /\ l.decision \in {"Reject H0", "Fail to reject H0"}
                  /\ l.decision = "Reject H0"
                        <=> (results[i].p # NaN /\ results[i].p < 50000)
        /\ Cardinality({i \in 1..Len(hyp_content) : hyp_content[i].kind = "chi"})
              = Len(results)

\* a report with a result just below 0.05 that is rejected and a result at
\* exactly 0.05 that is not
C6_Witness ==
    /\ HypWritten
    /\ \E i, j \in 1..Len(results) :
          /\ results[i].p = 49996 /\ hyp_content[i + 1].decision = "Reject H0"
          /\ results[j].p = 50000 /\ hyp_content[j + 1].decision = "Fail to reject H0"

\* C7 as stated: the outlier count of a column is the same after any
\* reordering, the same after adding a row strictly inside the bounds
\* computed from the column, and one more after adding a row just above
\* the upper bound.
C7_Original ==
    /\ ext \in {"none", "inside"} => outliers = iqr_outliers_count(col0)
    /\ ext = "above" => outliers = iqr_outliers_count(col0) + 1

\* C7 amended: the outlier count of a column is the same after any
\* reordering.  An added row moves the quartiles, so the count of the
\* extended column is only stable against the bounds of the original
\* column: the number of its cells outside those bounds is unchanged by a
\* row strictly inside them and one more with a row just above the upper
\* bound.
C7_Amended ==
    /\ ext = "none" => outliers = iqr_outliers_count(col0)
    /\ ext = "inside" =>
          CountOutside(col, lower8(col0), upper8(col0)) = iqr_outliers_count(col0)
    /\ ext = "above" =>
          CountOutside(col, lower8(col0), upper8(col0)) = iqr_outliers_count(col0) + 1

\* a reordered column with an outlier
C7_Witness ==
    /\ ext = "none"
    /\ col # col0
    /\ outliers = 1
    /\ col[1] # col0[1]

C9_NoSparseLeft ==
    chi.status = "ok" =>
        /\ \A r \in chi.tab.rows : RowSum(chi.tab, r) >= 5
        /\ \A c \in chi.tab.cols : ColSum(chi.tab, c) >= 5

\* the place of a file in the order of the outputs
Rank(f) ==
    IF f = QualityFile THEN 1 ELSE IF f \in Charts THEN 2
    ELSE IF f = HypothesisFile THEN 3 ELSE 4

\* C10: the quality report is written before any chart, every chart before
\* the hypothesis report and the hypothesis report before the insight
\* summary; when a hypothesis test raises, the run ends with the quality
\* report and every eligible chart written and with neither the hypothesis
\* report nor the insight summary; the success line is printed only after
\* the three reports are written.
C10_OutputOrder ==
    /\ \A i, j \in 1..Len(written) : i < j => Rank(written[i]) < Rank(written[j])
                                             \/ (Rank(written[i]) = 2 /\ Rank(written[j]) = 2
                                                 /\ written[i] # written[j])
    /\ (written # <<>>) => written[1] = QualityFile
    /\ pc \in {"raised_in_chi_square_test", "raised_in_OLS"} =>
          /\ QualityFile \in Files
          /\ \A g \in GatedCharts : Present(g.req) => g.out \in Files
          /\ HypothesisFile \notin Files /\ InsightFile \notin Files
          /\ ~printed
    /\ printed => {QualityFile, HypothesisFile, InsightFile} \subseteq Files

\* a run ended by a raising chi-square test after a chart was written
C10_Witness ==
    /\ pc = "raised_in_chi_square_test"
    /\ RRDeviceChart \in Files
    /\ written[1] = QualityFile

====
